---------------------------- MODULE Spec2Model ----------------------------
(***************************************************************************)
(* A model of scripts/check-missing.py: the rosdep key resolver for Arch   *)
(* Linux.  Strings are TLA+ strings (TLC evaluates Len, \o and SubSeq on   *)
(* them), YAML documents are sets of typed nodes addressed by their path,  *)
(* and Python exceptions are explicit outcomes of the operators.           *)
(***************************************************************************)
EXTENDS Naturals, Sequences, FiniteSets, TLC

VARIABLES
    \* ---- main(): one run after the other over the same output file
    pc,                 \* position in main()
    run,                \* number of the current run of the script
    nfile,              \* number of upstream files loaded in this run
    iterated,           \* keys of the current upstream file already iterated
    key,                \* loop variable of "for key in official_rosdep_defs"
    upstream,           \* official_rosdep_defs[key] of the current file
    stage,              \* the if-block of the loop body that is about to run
    new_keys,           \* dict of the definitions collected in this run
    stats,              \* the seven tally counters
    rosdep_yaml_file,   \* content of ROSDEP_YAML_FILE on disk
    previous_defs,      \* load_rosdep_file(ROSDEP_YAML_FILE)
    official_packages, aur_packages, pip_packages,
    repology_pkgs,      \* result of check_repology for the current key
    replies,            \* what repology.org answered for the current key
    processed,          \* history: how often each key was tallied in this run
    nkeys,              \* history: loop iterations started, over all runs
    \* ---- the pickle cache
    clock,              \* time.time()
    cache_file,         \* cache/<name>.pickle
    cache_ret,          \* outcome of the last get_cached call
    last_put,           \* history: object of the last completed store_cache
    nticks,             \* history: number of clock steps
    \* ---- rosdep_lookup called on its own
    lk_call, lk_ret,
    \* ---- the name guess called on its own
    tr_key, tr_guess, tr_n

mainVars == <<pc, run, nfile, iterated, key, upstream, stage, new_keys, stats,
              rosdep_yaml_file, previous_defs, official_packages, aur_packages,
              pip_packages, repology_pkgs, replies, processed, nkeys>>
cacheVars == <<clock, cache_file, cache_ret, last_put, nticks>>
lookupVars == <<lk_call, lk_ret>>
guessVars == <<tr_key, tr_guess, tr_n>>
notMainVars == <<cacheVars, lookupVars, guessVars>>
vars == <<mainVars, notMainVars>>

-----------------------------------------------------------------------------
(* Python values *)

\* None, and a present optional argument
None == <<>>
Some(x) == <<x>>

\* str.startswith / str.endswith
startswith(s, prefix) ==
    Len(s) >= Len(prefix) /\ SubSeq(s, 1, Len(prefix)) = prefix

endswith(s, suffix) ==
    Len(s) >= Len(suffix) /\ SubSeq(s, Len(s) - Len(suffix) + 1, Len(s)) = suffix

\* str.find: the first index at which old occurs in s, 0 when it does not
find(s, old) ==
    LET hits == {i \in 1..(Len(s) + 1) :
                    i + Len(old) - 1 <= Len(s) /\ SubSeq(s, i, i + Len(old) - 1) = old}
    IN IF hits = {} THEN 0 ELSE CHOOSE i \in hits : \A j \in hits : i <= j

\* str.replace(old, new, 1)
replace1(s, old, new) ==
    LET i == find(s, old)
    IN IF i = 0 THEN s
       ELSE SubSeq(s, 1, i - 1) \o new \o SubSeq(s, i + Len(old), Len(s))

\* Code point order of the characters package names are made of
Alphabet == "+-.0123456789_abcdefghijklmnopqrstuvwxyz"
ord(c) == CHOOSE i \in 1..Len(Alphabet) : SubSeq(Alphabet, i, i) = c

\* a < b on str: lexicographic by code point
RECURSIVE str_lt(_, _)
str_lt(a, b) ==
    IF b = "" THEN FALSE
    ELSE IF a = "" THEN TRUE
    ELSE IF Head(a) = Head(b) THEN str_lt(Tail(a), Tail(b))
    ELSE ord(Head(a)) < ord(Head(b))

\* sorted(): a stable ascending sort
RECURSIVE insert_sorted(_, _)
insert_sorted(x, s) ==
    IF s = <<>> THEN <<x>>
    ELSE IF str_lt(Head(s), x) THEN <<Head(s)>> \o insert_sorted(x, Tail(s))
    ELSE <<x>> \o s

RECURSIVE sorted(_)
sorted(pkgs) ==
    IF pkgs = <<>> THEN <<>> ELSE insert_sorted(Head(pkgs), sorted(Tail(pkgs)))

\* list(a_set): the elements in the set's iteration order, which is arbitrary
RECURSIVE list_of(_)
list_of(S) ==
    IF S = {} THEN <<>> ELSE LET x == CHOOSE y \in S : TRUE IN <<x>> \o list_of(S \ {x})

set_of(l) == {l[i] : i \in 1..Len(l)}

-----------------------------------------------------------------------------
(* YAML values.  The value of one rosdep key is a set of nodes; a node has  *)
(* the path of dict keys that leads to it, its Python type, and its items   *)
(* when it is a list (its text when it is a str).                           *)

dict_node(path) == [path |-> path, kind |-> "dict", items |-> <<>>]
list_node(path, items) == [path |-> path, kind |-> "list", items |-> items]
str_node(path, text) == [path |-> path, kind |-> "str", items |-> <<text>>]
null_node(path) == [path |-> path, kind |-> "NoneType", items |-> <<>>]

type_of(value, path) ==
    IF \E n \in value : n.path = path
    THEN (CHOOSE n \in value : n.path = path).kind
    ELSE "absent"

items_of(value, path) == (CHOOSE n \in value : n.path = path).items

\* The empty dict
EmptyDict == [k \in {} |-> {}]

\* yaml_data[key][k1][k2]...: the exception of the first subscript that fails
RECURSIVE subscript(_, _, _)
subscript(value, path, ks) ==
    IF ks = <<>> THEN "none"
    ELSE IF type_of(value, path) # "dict" THEN "TypeError"
    ELSE IF type_of(value, path \o <<Head(ks)>>) = "absent" THEN "KeyError"
    ELSE subscript(value, path \o <<Head(ks)>>, Tail(ks))

\* One try block of rosdep_lookup:
\*     pkgs = yaml_data[key]...; if type(pkgs) is list: return pkgs
\* under the except clauses `caught`
Return(pkgs) == [st |-> "return", val |-> pkgs, exc |-> "none"]
Pass == [st |-> "pass", val |-> <<>>, exc |-> "none"]
Raise(exc) == [st |-> "raise", val |-> <<>>, exc |-> exc]

try_lookup(yaml_data, k, ks, caught) ==
    LET exc == IF k \notin DOMAIN yaml_data THEN "KeyError"
               ELSE subscript(yaml_data[k], <<>>, ks)
    IN IF exc = "none"
       THEN IF type_of(yaml_data[k], ks) = "list"
            THEN Return(items_of(yaml_data[k], ks))
            ELSE Pass
       ELSE IF exc \in caught THEN Pass ELSE Raise(exc)

\* The except clauses of the branch without a package manager
CaughtDefault == {"KeyError"}
\* The except clauses of the branch with a package manager
CaughtManager == {"KeyError", "TypeError"}

rosdep_lookup(yaml_data, k, os, os_version, pkg_manager) ==
    IF pkg_manager = None
    THEN LET t1 == try_lookup(yaml_data, k, <<os>>, CaughtDefault)
             t2 == IF os_version # None
                   THEN try_lookup(yaml_data, k, <<os, os_version[1]>>, CaughtDefault)
                   ELSE Pass
             t3 == try_lookup(yaml_data, k, <<os, "*">>, CaughtDefault)
         IN IF t1.st # "pass" THEN t1
            ELSE IF t2.st # "pass" THEN t2
            ELSE IF t3.st # "pass" THEN t3
            ELSE Return(<<>>)
    ELSE LET m == pkg_manager[1]
             t1 == try_lookup(yaml_data, k, <<os, m, "packages">>, CaughtManager)
             t2 == IF os_version # None
                   THEN try_lookup(yaml_data, k, <<os, os_version[1], m, "packages">>,
                                   CaughtManager)
                   ELSE Pass
             t3 == try_lookup(yaml_data, k, <<os, "*", m, "packages">>, CaughtManager)
         IN IF t1.st # "pass" THEN t1
            ELSE IF t2.st # "pass" THEN t2
            ELSE IF t3.st # "pass" THEN t3
            ELSE Return(<<>>)

-----------------------------------------------------------------------------
(* The name guess of main(): rosdep's python-X is Python 2 and is Arch's    *)
(* python2-X, rosdep's python3-X is Arch's python-X.                        *)

\* guess without the translation of the prefixes
guess_untranslated(k) == k

\* guess as an exchange of the two prefixes
guess_swapped(k) ==
    IF startswith(k, "python-") THEN replace1(k, "python", "python3")
    ELSE IF startswith(k, "python3-") THEN replace1(k, "python3", "python")
    ELSE k

guess(k) ==
    IF startswith(k, "python-") THEN replace1(k, "python", "python2")
    ELSE IF startswith(k, "python3-") THEN replace1(k, "python3", "python")
    ELSE k

-----------------------------------------------------------------------------
(* The cache: one pickle file per name, valid for a day by its mtime.      *)

Retention == 3600 * 24

\* pickle.dumps of a set of str, as the sequence of its opcodes and arguments
pickle_dumps(obj) ==
    LET l == list_of(obj)
        arg == [i \in 1..(2 * Len(l)) |->
                   IF i % 2 = 1 THEN "SHORT_BINUNICODE" ELSE l[i \div 2]]
    IN <<"PROTO", "EMPTY_SET">>
       \o (IF obj = {} THEN <<>> ELSE <<"MARK">> \o arg \o <<"ADDITEMS">>)
       \o <<"STOP">>

\* pickle.load: the unpickler reads opcode after opcode up to STOP.  Input that
\* ends where an opcode is due raises EOFError, input that ends inside an
\* argument or holds an unknown opcode raises UnpicklingError.
RECURSIVE unpickle(_, _, _)
unpickle(data, i, acc) ==
    IF i > Len(data) THEN [exc |-> "EOFError", val |-> {}]
    ELSE IF data[i] = "STOP" THEN [exc |-> "none", val |-> acc]
    ELSE IF data[i] \in {"PROTO", "EMPTY_SET", "MARK", "ADDITEMS"}
         THEN unpickle(data, i + 1, acc)
    ELSE IF data[i] = "SHORT_BINUNICODE"
         THEN IF i + 1 > Len(data) THEN [exc |-> "UnpicklingError", val |-> {}]
              ELSE unpickle(data, i + 2, acc \cup {data[i + 1]})
    ELSE [exc |-> "UnpicklingError", val |-> {}]

pickle_load(data) == unpickle(data, 1, {})

NoFile == [exists |-> FALSE, mtime |-> 0, data |-> <<>>, readable |-> TRUE]

\* The exceptions get_cached catches around pickle.load
CaughtUnpickling == {"UnpicklingError"}

\* get_cached(name): Some(obj), None, or the exception it lets through
get_cached(name) ==
    LET f == cache_file[name]
        age_secs == clock - f.mtime
        loaded == pickle_load(f.data)
    IN IF ~f.exists THEN Return(None)                     \* FileNotFoundError
       ELSE IF age_secs > Retention THEN Return(None)
       ELSE IF ~f.readable THEN Return(None)              \* OSError
       ELSE IF loaded.exc = "none" THEN Return(Some(loaded.val))
       ELSE IF loaded.exc \in CaughtUnpickling THEN Return(None)
       ELSE Raise(loaded.exc)

\* store_cache(name, obj)
store_cache(name, obj) ==
    [cache_file EXCEPT ![name] =
        [exists |-> TRUE, mtime |-> clock, data |-> pickle_dumps(obj), readable |-> TRUE]]

-----------------------------------------------------------------------------
(* check_repology *)

\* Map rosdep os names to repology os identifiers
os_lut ==
    "debian" :> ("*" :> "debian_stable" @@ "stretch" :> "debian_oldstable"
                 @@ "buster" :> "debian_stable")
    @@ "ubuntu" :> ("*" :> "ubuntu_20_04" @@ "bionic" :> "ubuntu_18_04"
                    @@ "focal" :> "ubuntu_20_04" @@ "trusty" :> "ubuntu_14_04"
                    @@ "xenial" :> "ubuntu_16_04")

\* The suffixes filter_hits removes
NoiseSuffixes == {"-doc", "-docs", "-demos", "-git", "-svn", "-hg"}

filter_hits(k, hits) ==
    LET h1 == {h \in hits : \A sfx \in NoiseSuffixes : ~endswith(h, sfx)}
    IN IF startswith(k, "python-") THEN {h \in h1 : ~startswith(h, "python-")}
       ELSE IF startswith(k, "python3-") THEN {h \in h1 : ~startswith(h, "python2-")}
       ELSE h1

\* The keys of the dict at `path`, and every order a dict can iterate them in
keys_at(value, path) ==
    {n.path[Len(path) + 1] : n \in {n \in value : Len(n.path) = Len(path) + 1
                                       /\ SubSeq(n.path, 1, Len(path)) = path}}

orders(S) == {o \in [1..Cardinality(S) -> S] : \A x \in S : \E i \in DOMAIN o : o[i] = x}

\* The elements `for x in value` yields for a list or a str
iter_of(value, path) ==
    IF type_of(value, path) = "str"
    THEN LET t == items_of(value, path)[1] IN [i \in 1..Len(t) |-> SubSeq(t, i, i)]
    ELSE items_of(value, path)

\* foreign_hits[ident] = hits: an assignment to an insertion-ordered dict
dict_set(d, ident, hits) ==
    IF \E i \in DOMAIN d : d[i].os = ident
    THEN [i \in DOMAIN d |-> IF d[i].os = ident THEN [os |-> ident, hits |-> hits] ELSE d[i]]
    ELSE Append(d, [os |-> ident, hits |-> hits])

\* The inner loop "for osver in rosdep_mappings[os]"
RECURSIVE foreign_of_versions(_, _, _, _)
foreign_of_versions(value, os, vers, d) ==
    IF vers = <<>> THEN d
    ELSE LET osver == Head(vers)
             d1 == IF osver \in DOMAIN os_lut[os]
                      /\ type_of(value, <<os, osver>>) = "list"
                   THEN dict_set(d, os_lut[os][osver], items_of(value, <<os, osver>>))
                   ELSE d
         IN foreign_of_versions(value, os, Tail(vers), d1)

\* The loop "for os in rosdep_mappings"; `order` gives the iteration order of
\* the dict at every path
RECURSIVE foreign_of(_, _, _, _)
foreign_of(value, oss, order, d) ==
    IF oss = <<>> THEN d
    ELSE LET os == Head(oss)
             d1 == IF os \notin DOMAIN os_lut THEN d
                   ELSE IF type_of(value, <<os>>) = "dict"
                   THEN foreign_of_versions(value, os, order[os], d)
                   ELSE IF type_of(value, <<os>>) # "NoneType"
                   THEN dict_set(d, os_lut[os]["*"], iter_of(value, <<os>>))
                   ELSE d
         IN foreign_of(value, Tail(oss), order, d1)

\* Answers of repology.org to one query
Answer(kind, data) == [kind |-> kind, data |-> data]
\* The exceptions caught around one query
CaughtQuery == {"URLError", "YAMLError"}
\* What a failed query raises: an HTTP or connection error is a URLError, a body
\* that is no JSON raises JSONDecodeError, a JSON body of another shape raises
\* KeyError at d['repo']
QueryFailures == {"URLError", "JSONDecodeError", "KeyError"}

\* The loop "for pkgname in foreign_hits[os]": the records collected, and the
\* exception that left the loop
RECURSIVE query_all(_, _, _, _)
query_all(os, pkgnames, answers, acc) ==
    IF pkgnames = <<>> THEN [exc |-> "none", data |-> acc]
    ELSE LET a == answers[<<os, Head(pkgnames)>>]
         IN IF a.kind = "ok"
            THEN query_all(os, Tail(pkgnames), answers, acc \o a.data)
            ELSE IF a.kind \in CaughtQuery
            THEN query_all(os, Tail(pkgnames), answers, acc)
            ELSE [exc |-> a.kind, data |-> acc]

tier_hits(data, repo, subrepo) ==
    {data[i].binname : i \in {i \in DOMAIN data :
                                 data[i].repo = repo /\ data[i].subrepo = subrepo}}

aur_hits_of(data) == {data[i].binname : i \in {i \in DOMAIN data : data[i].repo = "aur"}}

\* The loop "for os in foreign_hits"
RECURSIVE search_platforms(_, _, _)
search_platforms(k, foreign_hits, answers) ==
    IF foreign_hits = <<>> THEN Return({})
    ELSE LET q == query_all(foreign_hits[1].os, foreign_hits[1].hits, answers, <<>>)
             core_hits == tier_hits(q.data, "arch", "core")
             extra_hits == tier_hits(q.data, "arch", "extra")
             community_hits == tier_hits(q.data, "arch", "community")
             aur_hits == aur_hits_of(q.data)
         IN IF q.exc # "none" THEN Raise(q.exc)
            ELSE IF core_hits # {} THEN Return(filter_hits(k, core_hits))
            ELSE IF extra_hits # {} THEN Return(filter_hits(k, extra_hits))
            ELSE IF community_hits # {} THEN Return(filter_hits(k, community_hits))
            ELSE IF aur_hits # {} THEN Return(filter_hits(k, aur_hits))
            ELSE search_platforms(k, Tail(foreign_hits), answers)

foreign_hits_of(rosdep_mappings, order) ==
    foreign_of(rosdep_mappings, order["/"], order, <<>>)

check_repology(k, rosdep_mappings, order, answers) ==
    IF type_of(rosdep_mappings, <<>>) # "dict" THEN Raise("TypeError")
    ELSE search_platforms(k, foreign_hits_of(rosdep_mappings, order), answers)

-----------------------------------------------------------------------------
(* main(): the data it loads *)

ROSDEP_YAML_FILE == "arch-with-aur.yaml"

\* The tally
Counters == {"official", "aur", "pip", "files", "repology", "skipped", "n/a"}
stats_zero == [c \in Counters |-> 0]

\* fetch_ubuntu_package_files(): ubuntu package -> the files it installs
ubuntu_files ==
    "libfoo-dev" :> {"/usr/lib/libfoo.so", "/usr/include/foo.h"}
    @@ "libbar-dev" :> {"/usr/lib/libbar.so"}

\* build_local_file_cache(): file -> the arch packages that own it
arch_files ==
    "/usr/lib/libfoo.so" :> {"foo"}
    @@ "/usr/include/foo.h" :> {"foo", "foo-headers"}

\* What list_official_packages(), list_aur_packages() and list_pip_packages()
\* return: the repositories on the day of a run
Repositories ==
    { [official |-> {"python2-yaml", "foo", "foo-headers"},
       aur |-> {"python-yaml", "bar"},
       pip |-> {"bar"}],
      [official |-> {"foo"}, aur |-> {}, pip |-> {}] }

\* The keys of base.yaml and python.yaml
Keys == {"python-yaml", "python3-yaml", "bar-pip", "libfoo"}

\* The values the upstream files give a key
UpstreamValues ==
    { {dict_node(<<>>)},
      {dict_node(<<>>), list_node(<<"arch">>, <<"foo">>)},
      {dict_node(<<>>), dict_node(<<"arch">>), dict_node(<<"arch", "pip">>),
       list_node(<<"arch", "pip", "packages">>, <<"bar">>)},
      {dict_node(<<>>), dict_node(<<"ubuntu">>),
       list_node(<<"ubuntu", "bionic">>, <<"libfoo-dev">>)},
      {dict_node(<<>>), list_node(<<"debian">>, <<"libbar-dev">>),
       list_node(<<"ubuntu">>, <<"libbar-dev">>)},
      {dict_node(<<>>), str_node(<<"arch">>, "foo")} }

\* The answers of repology.org to one query
Project(repo, subrepo, binname) == [repo |-> repo, subrepo |-> subrepo, binname |-> binname]
Answers ==
    {Answer(f, <<>>) : f \in QueryFailures}
    \cup { Answer("ok", <<Project("arch", "core", "bar-doc"), Project("arch", "extra", "bar")>>),
           Answer("ok", <<Project("arch", "extra", "bar"), Project("debian_stable", "", "libbar-dev")>>),
           Answer("ok", <<Project("aur", "", "bar-git"), Project("aur", "", "bar")>>) }

\* Every iteration order of the dicts of an upstream value
dict_orders(value) ==
    LET oss == {os \in keys_at(value, <<>>) : type_of(value, <<os>>) = "dict"}
        tops == {"/" :> o : o \in orders(keys_at(value, <<>>))}
        subs == {f \in [oss -> UNION {orders(keys_at(value, <<os>>)) : os \in oss}] :
                    \A os \in oss : f[os] \in orders(keys_at(value, <<os>>))}
    IN {t @@ f : t \in tops, f \in subs}

\* The queries check_repology sends for a value
queries_of(value, order) ==
    LET fh == foreign_hits_of(value, order)
    IN UNION {{<<fh[i].os, fh[i].hits[j]>> : j \in 1..Len(fh[i].hits)} : i \in DOMAIN fh}

-----------------------------------------------------------------------------
(* main(): its local functions *)

match_pkg_files_hits(needed_files) ==
    LET owners == UNION {arch_files[file] : file \in needed_files \cap DOMAIN arch_files}
    IN [arch_pkg \in owners |->
           Cardinality({file \in needed_files \cap DOMAIN arch_files :
                           arch_pkg \in arch_files[file]})]

\* match_pkg_files keeping only the packages with the most hits
match_pkg_files_best(ubuntu_pkg_name) ==
    IF ubuntu_pkg_name \notin DOMAIN ubuntu_files THEN <<>>
    ELSE LET hits == match_pkg_files_hits(ubuntu_files[ubuntu_pkg_name])
         IN list_of({p \in DOMAIN hits : \A q \in DOMAIN hits : hits[q] <= hits[p]})

match_pkg_files(ubuntu_pkg_name) ==
    IF ubuntu_pkg_name \notin DOMAIN ubuntu_files THEN <<>>
    ELSE list_of(DOMAIN match_pkg_files_hits(ubuntu_files[ubuntu_pkg_name]))

\* do_all_pkgs_exist without the AUR
do_all_pkgs_exist_official(pkgs) ==
    \A i \in DOMAIN pkgs : pkgs[i] \in official_packages

do_all_pkgs_exist(pkgs) ==
    \A i \in DOMAIN pkgs : pkgs[i] \in official_packages \cup aur_packages

do_all_pip_pkgs_exist(pkgs) ==
    \A i \in DOMAIN pkgs : pkgs[i] \in pip_packages

definition_of(pkgs, pkg_manager) ==
    IF pkg_manager = None
    THEN {dict_node(<<>>), list_node(<<"arch">>, sorted(pkgs))}
    ELSE {dict_node(<<>>), dict_node(<<"arch">>), dict_node(<<"arch", pkg_manager[1]>>),
          list_node(<<"arch", pkg_manager[1], "packages">>, sorted(pkgs))}

\* add_definition(key, pkgs, pkg_manager): the dict new_keys after it
add_definition(k, pkgs, pkg_manager) ==
    [x \in DOMAIN new_keys \cup {k} |->
        IF x = k THEN definition_of(pkgs, pkg_manager) ELSE new_keys[x]]

\* official_rosdep_defs, as far as the loop has read it
official_rosdep_defs == key :> upstream

-----------------------------------------------------------------------------
(* main(): its steps *)

MaxRuns == 2
MaxKeys == 2

loopVars == <<run, nfile, iterated, rosdep_yaml_file, previous_defs,
              official_packages, aur_packages, pip_packages, nkeys>>

\* "continue" after a definition was added (or kept out) and tallied
Tally(defs, counter) ==
    /\ new_keys' = defs
    /\ stats' = [stats EXCEPT ![counter] = @ + 1]
    /\ processed' = [x \in DOMAIN processed \cup {key} |->
                        IF x = key
                        THEN (IF key \in DOMAIN processed THEN processed[key] ELSE 0) + 1
                        ELSE processed[x]]
    /\ pc' = "loop"
    /\ key' = "" /\ upstream' = {} /\ stage' = 0
    /\ repology_pkgs' = <<>> /\ replies' = EmptyDict
    /\ UNCHANGED <<loopVars, notMainVars>>

\* The if-block did not apply: on to the next one
FallThrough ==
    /\ stage' = stage + 1
    /\ UNCHANGED <<pc, key, upstream, new_keys, stats, processed, repology_pkgs, replies>>
    /\ UNCHANGED <<loopVars, notMainVars>>

\* An exception nothing catches leaves main()
Uncaught ==
    /\ pc' = "crashed"
    /\ UNCHANGED <<key, upstream, stage, new_keys, stats, processed, repology_pkgs, replies>>
    /\ UNCHANGED <<loopVars, notMainVars>>

\* The script is started: the package lists and the previous output are loaded
StartRun ==
    /\ pc \in {"start", "done", "crashed"}
    /\ run < MaxRuns
    /\ run' = run + 1
    /\ \E r \in Repositories :
          /\ official_packages' = r.official
          /\ aur_packages' = r.aur
          /\ pip_packages' = r.pip
    /\ previous_defs' = IF rosdep_yaml_file = None THEN EmptyDict ELSE rosdep_yaml_file[1]
    /\ stats' = stats_zero
    /\ new_keys' = EmptyDict
    /\ processed' = EmptyDict
    /\ nfile' = 0 /\ iterated' = {}
    /\ key' = "" /\ upstream' = {} /\ stage' = 0
    /\ repology_pkgs' = <<>> /\ replies' = EmptyDict
    /\ pc' = "load"
    /\ UNCHANGED <<rosdep_yaml_file, nkeys, notMainVars>>

\* for filename in ["base.yaml", "python.yaml"]: load_rosdep_file(url)
LoadFile ==
    /\ pc = "load"
    /\ nfile' = nfile + 1
    /\ iterated' = {}
    /\ pc' = "loop"
    /\ UNCHANGED <<run, key, upstream, stage, new_keys, stats, rosdep_yaml_file,
                   previous_defs, official_packages, aur_packages, pip_packages,
                   repology_pkgs, replies, processed, nkeys, notMainVars>>

\* for key in official_rosdep_defs: the next key of the file and its value
NextKey ==
    /\ pc = "loop"
    /\ nkeys < MaxKeys
    /\ \E k \in Keys \ iterated, u \in UpstreamValues :
          /\ key' = k
          /\ upstream' = u
          /\ iterated' = iterated \cup {k}
    /\ stage' = 1
    /\ pc' = "stage"
    /\ nkeys' = nkeys + 1
    /\ UNCHANGED <<run, nfile, new_keys, stats, rosdep_yaml_file, previous_defs,
                   official_packages, aur_packages, pip_packages, repology_pkgs,
                   replies, processed, notMainVars>>

\* The file has no more keys
EndFile ==
    /\ pc = "loop"
    /\ pc' = IF nfile < 2 THEN "load" ELSE "write"
    /\ UNCHANGED <<run, nfile, iterated, key, upstream, stage, new_keys, stats,
                   rosdep_yaml_file, previous_defs, official_packages, aur_packages,
                   pip_packages, repology_pkgs, replies, processed, nkeys, notMainVars>>

\* Keep current definitions if they are okay
KeepCurrent ==
    /\ pc = "stage" /\ stage = 1
    /\ LET current_hits == rosdep_lookup(previous_defs, key, "arch", None, None)
       IN IF current_hits.st = "raise" THEN Uncaught
          ELSE IF Len(current_hits.val) > 0 /\ do_all_pkgs_exist(current_hits.val)
          THEN Tally(add_definition(key, current_hits.val, None), "skipped")
          ELSE FallThrough

KeepCurrentPip ==
    /\ pc = "stage" /\ stage = 2
    /\ LET current_pip_hits == rosdep_lookup(previous_defs, key, "arch", None, Some("pip"))
       IN IF current_pip_hits.st = "raise" THEN Uncaught
          ELSE IF Len(current_pip_hits.val) > 0 /\ do_all_pip_pkgs_exist(current_pip_hits.val)
          THEN Tally(add_definition(key, current_pip_hits.val, Some("pip")), "skipped")
          ELSE FallThrough

\* SkipOfficial adding the official definition to the output file
SkipOfficial_Adopting ==
    /\ pc = "stage" /\ stage = 3
    /\ LET official_hits == rosdep_lookup(official_rosdep_defs, key, "arch", None, None)
       IN IF official_hits.st = "raise" THEN Uncaught
          ELSE IF Len(official_hits.val) > 0 /\ do_all_pkgs_exist(official_hits.val)
          THEN Tally(add_definition(key, official_hits.val, None), "skipped")
          ELSE FallThrough

\* Lookup official definitions; do not add them to the output file
SkipOfficial ==
    /\ pc = "stage" /\ stage = 3
    /\ LET official_hits == rosdep_lookup(official_rosdep_defs, key, "arch", None, None)
       IN IF official_hits.st = "raise" THEN Uncaught
          ELSE IF Len(official_hits.val) > 0 /\ do_all_pkgs_exist(official_hits.val)
          THEN Tally(new_keys, "skipped")
          ELSE FallThrough

SkipOfficialPip ==
    /\ pc = "stage" /\ stage = 4
    /\ LET official_pip_hits ==
               rosdep_lookup(official_rosdep_defs, key, "arch", None, Some("pip"))
       IN IF official_pip_hits.st = "raise" THEN Uncaught
          ELSE IF Len(official_pip_hits.val) > 0
                  /\ do_all_pip_pkgs_exist(official_pip_hits.val)
          THEN Tally(new_keys, "skipped")
          ELSE FallThrough

\* The qualified guess: the key itself, with the python prefixes translated
GuessName ==
    /\ pc = "stage" /\ stage = 5
    /\ IF guess(key) \in official_packages
       THEN Tally(add_definition(key, <<guess(key)>>, None), "official")
       ELSE IF guess(key) \in aur_packages
       THEN Tally(add_definition(key, <<guess(key)>>, None), "aur")
       ELSE FallThrough

\* Guess pip packages after official/AUR packages
GuessPip ==
    /\ pc = "stage" /\ stage = 6
    /\ IF endswith(key, "-pip") /\ SubSeq(key, 1, Len(key) - 4) \in pip_packages
       THEN Tally(add_definition(key, <<SubSeq(key, 1, Len(key) - 4)>>, Some("pip")), "pip")
       ELSE FallThrough

\* The arch packages that own a file of one of the bionic packages
arch_pkgs_of(bionic_pkgs) ==
    UNION {set_of(match_pkg_files(bionic_pkgs[i])) : i \in DOMAIN bionic_pkgs}

MatchFiles ==
    /\ pc = "stage" /\ stage = 7
    /\ LET bionic_pkgs ==
               rosdep_lookup(official_rosdep_defs, key, "ubuntu", Some("bionic"), None)
       IN IF bionic_pkgs.st = "raise" THEN Uncaught
          ELSE IF Len(bionic_pkgs.val) > 0 /\ arch_pkgs_of(bionic_pkgs.val) # {}
          THEN Tally(add_definition(key, list_of(arch_pkgs_of(bionic_pkgs.val)), None),
                     "files")
          ELSE FallThrough

\* repology_pkgs = list(check_repology(key, official_rosdep_defs[key]))
AskRepology ==
    /\ pc = "stage" /\ stage = 8
    /\ \E order \in dict_orders(upstream) :
       \E answers \in [queries_of(upstream, order) -> Answers] :
          LET found == check_repology(key, official_rosdep_defs[key], order, answers)
          IN /\ replies' = answers
             /\ repology_pkgs' = IF found.st = "raise" THEN <<>> ELSE list_of(found.val)
             /\ pc' = IF found.st = "raise" THEN "crashed" ELSE "searched"
    /\ UNCHANGED <<key, upstream, stage, new_keys, stats, processed>>
    /\ UNCHANGED <<loopVars, notMainVars>>

UseRepology ==
    /\ pc = "searched"
    /\ IF Len(repology_pkgs) > 0
       THEN Tally(add_definition(key, repology_pkgs, None), "repology")
       ELSE /\ pc' = "stage"
            /\ stage' = 9
            /\ UNCHANGED <<key, upstream, new_keys, stats, processed, repology_pkgs, replies>>
            /\ UNCHANGED <<loopVars, notMainVars>>

NotFound ==
    /\ pc = "stage" /\ stage = 9
    /\ Tally(add_definition(key, <<>>, None), "n/a")

\* with open(ROSDEP_YAML_FILE, 'w') as out_file: yaml.safe_dump(new_keys, out_file)
WriteFile ==
    /\ pc = "write"
    /\ rosdep_yaml_file' = Some(new_keys)
    /\ pc' = "done"
    /\ UNCHANGED <<run, nfile, iterated, key, upstream, stage, new_keys, stats,
                   previous_defs, official_packages, aur_packages, pip_packages,
                   repology_pkgs, replies, processed, nkeys, notMainVars>>

MainInit ==
    /\ pc = "start" /\ run = 0 /\ nfile = 0 /\ iterated = {}
    /\ key = "" /\ upstream = {} /\ stage = 0
    /\ new_keys = EmptyDict /\ stats = stats_zero
    /\ rosdep_yaml_file = None /\ previous_defs = EmptyDict
    /\ official_packages = {} /\ aur_packages = {} /\ pip_packages = {}
    /\ repology_pkgs = <<>> /\ replies = EmptyDict
    /\ processed = EmptyDict /\ nkeys = 0

CacheNames == {"aur_packages"}
CacheIdle ==
    /\ clock = 0 /\ nticks = 0
    /\ cache_file = [n \in CacheNames |-> NoFile]
    /\ cache_ret = None
    /\ last_put = [n \in CacheNames |-> None]
LookupIdle == lk_call = None /\ lk_ret = Pass
GuessIdle == tr_key = "" /\ tr_guess = "" /\ tr_n = 0

Init == MainInit /\ CacheIdle /\ LookupIdle /\ GuessIdle

Next ==
    \/ StartRun \/ LoadFile \/ NextKey \/ EndFile
    \/ KeepCurrent \/ KeepCurrentPip \/ SkipOfficial \/ SkipOfficialPip
    \/ GuessName \/ GuessPip \/ MatchFiles \/ AskRepology \/ UseRepology \/ NotFound
    \/ WriteFile

Spec == Init /\ [][Next]_vars

-----------------------------------------------------------------------------
(* The cache on its own: stores, reads and the passing of time *)

MaxTicks == 3

\* The sets the script caches
CacheObjects == {{}, {"foo"}, {"bar", "foo"}}

\* Time passes: a second, or half the retention window
Tick ==
    /\ nticks < MaxTicks
    /\ nticks' = nticks + 1
    /\ \E d \in {1, Retention \div 2} : clock' = clock + d
    /\ cache_ret' = None
    /\ UNCHANGED <<cache_file, last_put, mainVars, lookupVars, guessVars>>

StoreCache ==
    /\ \E name \in CacheNames, obj \in CacheObjects :
          /\ cache_file' = store_cache(name, obj)
          /\ last_put' = [last_put EXCEPT ![name] = Some(obj)]
    /\ cache_ret' = None
    /\ UNCHANGED <<clock, nticks, mainVars, lookupVars, guessVars>>

\* store_cache is cut short (the script is interrupted, the disk is full): the
\* file was truncated by open(..., 'w+b') and holds the part written so far
StoreCacheCutShort ==
    /\ \E name \in CacheNames, obj \in CacheObjects :
       \E n \in 0..(Len(pickle_dumps(obj)) - 1) :
          /\ cache_file' = [cache_file EXCEPT ![name] =
                               [exists |-> TRUE, mtime |-> clock,
                                data |-> SubSeq(pickle_dumps(obj), 1, n),
                                readable |-> TRUE]]
          /\ last_put' = [last_put EXCEPT ![name] = None]
    /\ cache_ret' = None
    /\ UNCHANGED <<clock, nticks, mainVars, lookupVars, guessVars>>

\* The file loses its read permission
MakeUnreadable ==
    /\ \E name \in CacheNames :
          /\ cache_file[name].exists /\ cache_file[name].readable
          /\ cache_file' = [cache_file EXCEPT ![name].readable = FALSE]
          /\ last_put' = [last_put EXCEPT ![name] = None]
    /\ cache_ret' = None
    /\ UNCHANGED <<clock, nticks, mainVars, lookupVars, guessVars>>

GetCached ==
    /\ \E name \in CacheNames : cache_ret' = Some([name |-> name, ret |-> get_cached(name)])
    /\ UNCHANGED <<clock, nticks, cache_file, last_put, mainVars, lookupVars, guessVars>>

CacheNext == Tick \/ StoreCache \/ StoreCacheCutShort \/ MakeUnreadable \/ GetCached

SpecCache == Init /\ [][CacheNext]_vars

-----------------------------------------------------------------------------
(* rosdep_lookup on its own *)

LookupValues ==
    UpstreamValues
    \cup { {null_node(<<>>)},
           {dict_node(<<>>), null_node(<<"ubuntu">>)},
           {dict_node(<<>>), str_node(<<"ubuntu">>, "libfoo-dev")},
           {dict_node(<<>>), dict_node(<<"arch">>), list_node(<<"arch", "*">>, <<"foo">>)},
           {dict_node(<<>>), dict_node(<<"arch">>), list_node(<<"arch", "pip">>, <<"bar">>)},
           {dict_node(<<>>), dict_node(<<"arch">>), dict_node(<<"arch", "pip">>),
            str_node(<<"arch", "pip", "packages">>, "bar")},
           {dict_node(<<>>), dict_node(<<"ubuntu">>), dict_node(<<"ubuntu", "bionic">>),
            dict_node(<<"ubuntu", "bionic", "pip">>),
            list_node(<<"ubuntu", "bionic", "pip", "packages">>, <<"bar">>)},
           {dict_node(<<>>), dict_node(<<"ubuntu">>), str_node(<<"ubuntu", "bionic">>, "libfoo-dev"),
            list_node(<<"ubuntu", "*">>, <<"libfoo">>)} }

LookupCalls ==
    [yaml_data : {"libfoo" :> v : v \in LookupValues},
     key : {"libfoo", "libbaz"},
     os : {"arch", "ubuntu"},
     os_version : {None, Some("bionic")},
     pkg_manager : {None, Some("pip")}]

LookupInit ==
    /\ MainInit /\ CacheIdle /\ GuessIdle
    /\ lk_call \in LookupCalls
    /\ lk_ret = Pass

CallLookup ==
    /\ lk_ret = Pass
    /\ lk_ret' = rosdep_lookup(lk_call.yaml_data, lk_call.key, lk_call.os,
                               lk_call.os_version, lk_call.pkg_manager)
    /\ UNCHANGED <<lk_call, mainVars, cacheVars, guessVars>>

SpecLookup == LookupInit /\ [][CallLookup]_vars

-----------------------------------------------------------------------------
(* The name guess on its own *)

MaxBody == 2
MaxApply == 2

GuessPrefixes == {"python-", "python3-", "python2-", "python", "py-", ""}
GuessChars == {"a", "-", "3", "n"}

RECURSIVE bodies(_)
bodies(n) ==
    IF n = 0 THEN {""}
    ELSE bodies(n - 1) \cup {b \o c : b \in bodies(n - 1), c \in GuessChars}

GuessKeys == {p \o b : p \in GuessPrefixes, b \in bodies(MaxBody)}

GuessInit ==
    /\ MainInit /\ CacheIdle /\ LookupIdle
    /\ tr_key \in GuessKeys
    /\ tr_guess = tr_key
    /\ tr_n = 0

\* The guess of a key, and the guess of that name taken as a key again
ApplyGuess ==
    /\ tr_n < MaxApply
    /\ tr_guess' = guess(tr_guess)
    /\ tr_n' = tr_n + 1
    /\ UNCHANGED <<tr_key, mainVars, cacheVars, lookupVars>>

SpecGuess == GuessInit /\ [][ApplyGuess]_vars

-----------------------------------------------------------------------------
(* The properties *)

\* {'arch': l} and {'arch': {'pip': {'packages': l}}}
NativeEntry(l) == {dict_node(<<>>), list_node(<<"arch">>, l)}
PipEntry(l) ==
    {dict_node(<<>>), dict_node(<<"arch">>), dict_node(<<"arch", "pip">>),
     list_node(<<"arch", "pip", "packages">>, l)}

\* l lists the set S in ascending order, every element once
Enumerates(l, S) ==
    /\ set_of(l) = S
    /\ Len(l) = Cardinality(S)
    /\ \A i, j \in DOMAIN l : i < j => str_lt(l[i], l[j])

AllIn(l, S) == \A i \in DOMAIN l : l[i] \in S

OnlyTallied(counter) == stats' = [stats EXCEPT ![counter] = @ + 1]

\* new_keys after the entry of the current key was set to e
EntrySet(e) ==
    /\ DOMAIN new_keys' = DOMAIN new_keys \cup {key}
    /\ new_keys'[key] = e
    /\ \A k \in DOMAIN new_keys \ {key} : new_keys'[k] = new_keys[k]

\* The lookups of the chain for the current key
PrevNative == rosdep_lookup(previous_defs, key, "arch", None, None)
PrevPip == rosdep_lookup(previous_defs, key, "arch", None, Some("pip"))
UpNative == rosdep_lookup(official_rosdep_defs, key, "arch", None, None)
UpPip == rosdep_lookup(official_rosdep_defs, key, "arch", None, Some("pip"))
UpBionic == rosdep_lookup(official_rosdep_defs, key, "ubuntu", Some("bionic"), None)

NonEmptyIn(r, S) == r.st = "return" /\ r.val # <<>> /\ AllIn(r.val, S)

\* The arch packages that own a file of one of the ubuntu packages
Candidates(pkgs) ==
    UNION {arch_files[f] :
              f \in (UNION {ubuntu_files[p] : p \in set_of(pkgs) \cap DOMAIN ubuntu_files})
                    \cap DOMAIN arch_files}

\* The condition of each stage of the chain for the current key
StageHolds(i) ==
    CASE i = 1 -> NonEmptyIn(PrevNative, official_packages \cup aur_packages)
      [] i = 2 -> NonEmptyIn(PrevPip, pip_packages)
      [] i = 3 -> NonEmptyIn(UpNative, official_packages \cup aur_packages)
      [] i = 4 -> NonEmptyIn(UpPip, pip_packages)
      [] i = 5 -> guess(key) \in official_packages \cup aur_packages
      [] i = 6 -> endswith(key, "-pip") /\ SubSeq(key, 1, Len(key) - 4) \in pip_packages
      [] i = 7 -> UpBionic.st = "return" /\ Candidates(UpBionic.val) # {}
      [] i = 8 -> pc = "searched" /\ repology_pkgs # <<>>
      [] OTHER -> TRUE

FirstStage == CHOOSE i \in 1..9 : StageHolds(i) /\ \A j \in 1..(i - 1) : ~StageHolds(j)

\* What the stage that succeeds does to the output and to the tally
StageOutcome(i) ==
    CASE i = 1 -> EntrySet(previous_defs[key]) /\ OnlyTallied("skipped")
      [] i = 2 -> EntrySet(previous_defs[key]) /\ OnlyTallied("skipped")
      [] i = 3 -> new_keys' = new_keys /\ OnlyTallied("skipped")
      [] i = 4 -> new_keys' = new_keys /\ OnlyTallied("skipped")
      [] i = 5 -> /\ EntrySet(NativeEntry(<<guess(key)>>))
                  /\ OnlyTallied(IF guess(key) \in official_packages
                                 THEN "official" ELSE "aur")
      [] i = 6 -> /\ EntrySet(PipEntry(<<SubSeq(key, 1, Len(key) - 4)>>))
                  /\ OnlyTallied("pip")
      [] i = 7 -> /\ \E l \in {items_of(new_keys'[key], <<"arch">>)} :
                        Enumerates(l, Candidates(UpBionic.val)) /\ EntrySet(NativeEntry(l))
                  /\ OnlyTallied("files")
      [] i = 8 -> /\ \E l \in {items_of(new_keys'[key], <<"arch">>)} :
                        Enumerates(l, set_of(repology_pkgs)) /\ EntrySet(NativeEntry(l))
                  /\ OnlyTallied("repology")
      [] OTHER -> EntrySet(NativeEntry(<<>>)) /\ OnlyTallied("n/a")

InChain == pc \in {"stage", "searched"}
StageNow == IF pc = "searched" THEN 8 ELSE stage

\* C1: the stages of a key are tried in the fixed order 1..9, one after the
\* other from the first; the key is finished by the first stage whose condition
\* holds, which alone sets the key's entry and adds one to its own counter and
\* to no other; a stage that does not succeed changes neither output nor tally.
C1_FirstStageWins ==
    [][ /\ (pc = "loop" /\ pc' # "loop" /\ pc' # "load" /\ pc' # "write")
              => (pc' = "stage" /\ stage' = 1)
        /\ (InChain /\ pc' = "loop")
              => (StageNow = FirstStage /\ StageOutcome(FirstStage))
        /\ (InChain /\ pc' \in {"stage", "searched"})
              => /\ ~StageHolds(StageNow)
                 /\ IF pc = "stage" /\ stage = 8
                    THEN pc' = "searched" /\ stage' = 8
                    ELSE pc' = "stage" /\ stage' = StageNow + 1
                 /\ key' = key /\ new_keys' = new_keys /\ stats' = stats
        /\ (InChain /\ pc' = "crashed") => (new_keys' = new_keys /\ stats' = stats)
      ]_vars

\* C1's case: the name guess is the first stage that holds for the current key
\* and is about to finish it, though the file cross-reference holds as well;
\* an earlier key of the run has been tallied
C1_Witness ==
    /\ pc = "stage" /\ stage = 5
    /\ FirstStage = 5 /\ StageHolds(7)
    /\ \E c \in Counters : stats = [stats_zero EXCEPT ![c] = 1]

NameTransform(k) ==
    IF startswith(k, "python-") THEN "python2-" \o SubSeq(k, 8, Len(k))
    ELSE IF startswith(k, "python3-") THEN "python-" \o SubSeq(k, 9, Len(k))
    ELSE k

\* C3: a key that stages 1-4 do not finish and whose transformed name is in the
\* official set is finished by the name guess: its entry is
\* {'arch': [transformed name]} and the official counter alone grows by one.
C3_NameGuess ==
    [][ (pc = "stage" /\ stage = 5
         /\ \A j \in 1..4 : ~StageHolds(j)
         /\ NameTransform(key) \in official_packages)
        => /\ pc' = "loop"
           /\ EntrySet(NativeEntry(<<NameTransform(key)>>))
           /\ OnlyTallied("official")
      ]_vars

\* C3's case: python-yaml was resolved to python2-yaml
C3_Witness ==
    /\ "python-yaml" \in DOMAIN new_keys
    /\ new_keys["python-yaml"] = NativeEntry(<<"python2-yaml">>)
    /\ stats["official"] = 1
    /\ "python2-yaml" \in official_packages

\* C4: for a key that stages 1-6 do not finish and whose ubuntu/bionic lookup
\* is a non-empty list, the file cross-reference collects the arch packages
\* that own a file of a listed ubuntu package; when there are any, the entry is
\* {'arch': l} with l holding each of them once, tallied under files; when
\* there are none, the chain goes on to the next stage.
C4_FileCrossReference ==
    [][ (pc = "stage" /\ stage = 7
         /\ \A j \in 1..6 : ~StageHolds(j)
         /\ UpBionic.st = "return" /\ UpBionic.val # <<>>)
        => IF Candidates(UpBionic.val) # {}
           THEN /\ pc' = "loop"
                /\ type_of(new_keys'[key], <<"arch">>) = "list"
                /\ LET l == items_of(new_keys'[key], <<"arch">>)
                   IN /\ set_of(l) = Candidates(UpBionic.val)
                      /\ Len(l) = Cardinality(Candidates(UpBionic.val))
                      /\ EntrySet(NativeEntry(l))
                /\ OnlyTallied("files")
           ELSE /\ pc' = "stage" /\ stage' = 8
                /\ new_keys' = new_keys /\ stats' = stats
      ]_vars

\* C4's case: libfoo-dev's two files gave foo (two hits) and foo-headers (one)
C4_Witness ==
    /\ "libfoo" \in DOMAIN new_keys
    /\ new_keys["libfoo"] = NativeEntry(<<"foo", "foo-headers">>)
    /\ stats["files"] = 1
    /\ run = 1

\* The hits repology.org gave for a platform, by tier
RepologyTiers == <<"core", "extra", "community", "aur">>
HitsOf(os, tier) ==
    UNION {{a.data[i].binname : i \in {i \in DOMAIN a.data :
                IF tier = "aur" THEN a.data[i].repo = "aur"
                ELSE a.data[i].repo = "arch" /\ a.data[i].subrepo = tier}} :
           a \in {replies[q] : q \in {q \in DOMAIN replies : q[1] = os}}}
Platforms == {q[1] : q \in DOMAIN replies}
Survivors(tier) == UNION {filter_hits(key, HitsOf(os, tier)) : os \in Platforms}

\* C5: when some tier has a hit that survives the noise filter, check_repology
\* returns a non-empty result made of surviving names of the highest such tier.
C5_FirstNonEmptyAfterFilter ==
    (pc = "searched" /\ \E t \in DOMAIN RepologyTiers : Survivors(RepologyTiers[t]) # {})
    => LET best == CHOOSE t \in DOMAIN RepologyTiers :
                      /\ Survivors(RepologyTiers[t]) # {}
                      /\ \A u \in 1..(t - 1) : Survivors(RepologyTiers[u]) = {}
       IN /\ repology_pkgs # <<>>
          /\ set_of(repology_pkgs) \subseteq Survivors(RepologyTiers[best])

\* C10: within a run an entry of new_keys never changes once it is set, and no
\* key is tallied twice.
C10_SetOnce ==
    [][ run' = run
        => /\ \A k \in DOMAIN new_keys : new_keys'[k] = new_keys[k]
           /\ \A k \in DOMAIN processed' : processed'[k] <= 1
      ]_vars

\* C8: a query that fails, by its transport or by its answer's form, does not
\* end the run.
C8_QueryFailureSkipped ==
    (\E q \in DOMAIN replies : replies[q].kind \in QueryFailures) => pc # "crashed"

\* C6: get_cached does not raise; it gives the stored object while the entry is
\* at most a day old, and None when the entry is older, missing, unreadable or
\* not a complete pickle.
C6_CacheContract ==
    cache_ret # None
    => LET name == cache_ret[1].name
           r == cache_ret[1].ret
           f == cache_file[name]
           age == clock - f.mtime
       IN /\ r.st = "return"
          /\ (last_put[name] # None /\ age <= Retention) => r.val = last_put[name]
          /\ (~f.exists \/ age > Retention \/ last_put[name] = None) => r.val = None

\* The levels rosdep_lookup tries for a call
ProbedPaths(c) ==
    IF c.pkg_manager = None
    THEN {<<c.os>>, <<c.os, "*">>}
         \cup (IF c.os_version = None THEN {} ELSE {<<c.os, c.os_version[1]>>})
    ELSE {<<c.os, c.pkg_manager[1], "packages">>, <<c.os, "*", c.pkg_manager[1], "packages">>}
         \cup (IF c.os_version = None THEN {}
               ELSE {<<c.os, c.os_version[1], c.pkg_manager[1], "packages">>})

LevelMatches(c, path) ==
    /\ c.key \in DOMAIN c.yaml_data
    /\ subscript(c.yaml_data[c.key], <<>>, path) = "none"
    /\ type_of(c.yaml_data[c.key], path) = "list"

\* C7: rosdep_lookup never raises, and returns the empty list when no level of
\* the chain matches.
C7_LookupTotal ==
    lk_ret # Pass
    => /\ lk_ret.st = "return"
       /\ (\A path \in ProbedPaths(lk_call) : ~LevelMatches(lk_call, path))
             => lk_ret.val = <<>>

HasPrefix == startswith(tr_key, "python-") \/ startswith(tr_key, "python3-")

\* C9 as claimed: the transform applied twice gives back the key.
C9_SelfInverse == (tr_n = 2 /\ HasPrefix) => tr_guess = tr_key

\* C9: the transform applied twice to python-X or to python3-X gives python2-X.
C9_TwiceGivesPython2 ==
    /\ (tr_n = 2 /\ startswith(tr_key, "python-"))
          => tr_guess = "python2-" \o SubSeq(tr_key, 8, Len(tr_key))
    /\ (tr_n = 2 /\ startswith(tr_key, "python3-"))
          => tr_guess = "python2-" \o SubSeq(tr_key, 9, Len(tr_key))

\* C9's case: python3-a became python-a and then python2-a
C9_Witness == tr_n = 2 /\ tr_key = "python3-a" /\ tr_guess = "python2-a"

=============================================================================
